---- MODULE Spec2Model ----
(***************************************************************************)
(* The enrichment run of streamlit_app.py (the `if run_btn:` block and the *)
(* helpers it calls), as a state machine over pandas tables.               *)
(*                                                                         *)
(* A string is a sequence of one-character strings, so that len, strip,    *)
(* replace, lower and the \W+ regex are computed, not assumed.  A missing  *)
(* cell (pandas NaN, what read_csv yields for an empty field) is Null.     *)
(* A table is [isdf, cols, rows]: cols the column labels in order (pandas  *)
(* allows a label to repeat), rows a sequence of rows, each a sequence of  *)
(* cells aligned with cols.  None is the table with isdf = FALSE.          *)
(*                                                                         *)
(* pandas semantics assumed (pandas 1.x/2.x object columns):               *)
(*   - Series.astype(str) turns NaN into the string "nan";                 *)
(*   - bool(float('nan')) is True, so `nan or ""` is nan;                  *)
(*   - df[label] is a DataFrame when the label repeats, and bool() of a    *)
(*     Series raises ValueError;                                           *)
(*   - DataFrame.merge(how="left") keeps the left rows in order.           *)
(***************************************************************************)
EXTENDS Integers, Sequences, FiniteSets, TLC

VARIABLES pc, raised, toggles, leads_df, df, propwire_df, pradar_df, meta, xls_bytes

vars == <<pc, raised, toggles, leads_df, df, propwire_df, pradar_df, meta, xls_bytes>>

(***************************************************************************)
(* Bounds of the model.                                                    *)
(***************************************************************************)
\* longest base table the loader returns, in rows
MaxRows == 2

(***************************************************************************)
(* Strings.                                                                *)
(***************************************************************************)
Null == <<"NaN">>

Empty == <<>>

UpperChars == <<"A","B","C","D","E","F","G","H","I","J","K","L","M",
                "N","O","P","Q","R","S","T","U","V","W","X","Y","Z">>

LowerChars == <<"a","b","c","d","e","f","g","h","i","j","k","l","m",
                "n","o","p","q","r","s","t","u","v","w","x","y","z">>

DigitChars == {"0","1","2","3","4","5","6","7","8","9"}

Range(s) == {s[i] : i \in 1..Len(s)}

\* str.lower() on one character
lower_char(ch) ==
    IF \E i \in 1..26 : UpperChars[i] = ch
    THEN LowerChars[CHOOSE i \in 1..26 : UpperChars[i] = ch]
    ELSE ch

\* str.lower()
str_lower(s) == [i \in 1..Len(s) |-> lower_char(s[i])]

IsSpace(ch) == ch \in {" ", "\t"}

\* str.strip(): leading and trailing whitespace removed
str_strip(s) ==
    LET keep == {i \in 1..Len(s) : ~IsSpace(s[i])}
    IN  IF keep = {} THEN Empty
        ELSE LET lo == CHOOSE i \in keep : \A j \in keep : i <= j
                 hi == CHOOSE i \in keep : \A j \in keep : j <= i
             IN  SubSeq(s, lo, hi)

\* str.replace(ch, rep) for a one-character pattern
RECURSIVE str_replace(_, _, _)
str_replace(s, ch, rep) ==
    IF s = Empty THEN Empty
    ELSE (IF Head(s) = ch THEN rep ELSE <<Head(s)>>) \o str_replace(Tail(s), ch, rep)

WordChars == Range(UpperChars) \cup Range(LowerChars) \cup DigitChars \cup {"_"}

\* the regex class \w
IsWord(ch) == ch \in WordChars

\* str(v or ""): NaN is truthy and prints as "nan", "" stays ""
py_str(v) == IF v = Null THEN <<"n","a","n">> ELSE v

\* Series.astype(str) on one cell
astype_str(v) == IF v = Null THEN <<"n","a","n">> ELSE v

RECURSIVE Join(_, _)
Join(parts, sep) ==
    IF parts = <<>> THEN Empty
    ELSE IF Len(parts) = 1 THEN parts[1]
    ELSE parts[1] \o sep \o Join(Tail(parts), sep)

NonEmpty(p) == p # Empty

\* normalize_apn with the hyphen left out of the list of stripped characters
normalize_apn_keeps_hyphen(apn) ==
    LET s0 == str_strip(py_str(apn))
        s1 == str_replace(s0, " ", Empty)
        s3 == str_replace(s1, "_", Empty)
        s4 == str_replace(s3, "/", Empty)
        s5 == str_replace(s4, ".", Empty)
    IN  str_lower(s5)

normalize_apn(apn) ==
    LET s0 == str_strip(py_str(apn))
        s1 == str_replace(s0, " ", Empty)
        s2 == str_replace(s1, "-", Empty)
        s3 == str_replace(s2, "_", Empty)
        s4 == str_replace(s3, "/", Empty)
        s5 == str_replace(s4, ".", Empty)
    IN  str_lower(s5)

addr_query(address, city, state, postal) ==
    LET parts == <<str_strip(py_str(address)), str_strip(py_str(city)),
                   str_strip(py_str(state)), str_strip(py_str(postal))>>
    IN  Join(SelectSeq(parts, NonEmpty), <<" ">>)

(***************************************************************************)
(* Tables.                                                                 *)
(***************************************************************************)
None == [isdf |-> FALSE, cols |-> <<>>, rows |-> <<>>]

DataFrame(cols, rows) == [isdf |-> TRUE, cols |-> cols, rows |-> rows]

\* len(df)
NRows(t) == Len(t.rows)

\* df.empty: no rows or no columns
IsEmptyDf(t) == Len(t.rows) = 0 \/ Len(t.cols) = 0

\* positions of a label among the columns
ColIdx(cols, name) == {i \in 1..Len(cols) : cols[i] = name}

HasCol(t, name) == ColIdx(t.cols, name) # {}

\* the label repeats: df[name] is a DataFrame, row.get(name) a Series
IsDupCol(t, name) == Cardinality(ColIdx(t.cols, name)) > 1

HasDupCols(t) == \E i, j \in 1..Len(t.cols) : i # j /\ t.cols[i] = t.cols[j]

\* row[name] where the label is unique
Cell(t, r, name) == t.rows[r][CHOOSE i \in ColIdx(t.cols, name) : TRUE]

\* df[name] = values, always appending a new column
SetColAppend(t, name, values) ==
    DataFrame(Append(t.cols, name),
              [r \in 1..Len(t.rows) |-> Append(t.rows[r], values[r])])

\* df[name] = values: in place when the label exists, appended otherwise
SetCol(t, name, values) ==
    IF HasCol(t, name)
    THEN DataFrame(t.cols,
                   [r \in 1..Len(t.rows) |->
                       [i \in 1..Len(t.cols) |->
                           IF t.cols[i] = name THEN values[r] ELSE t.rows[r][i]]])
    ELSE DataFrame(Append(t.cols, name),
                   [r \in 1..Len(t.rows) |-> Append(t.rows[r], values[r])])

\* the drop forgotten: the table is returned as it is
DropColNone(t, name) == t

\* df.drop(columns=[name], errors="ignore")
DropCol(t, name) ==
    LET keep == SelectSeq([i \in 1..Len(t.cols) |-> i], LAMBDA i : t.cols[i] # name)
    IN  DataFrame([k \in 1..Len(keep) |-> t.cols[keep[k]]],
                  [r \in 1..Len(t.rows) |-> [k \in 1..Len(keep) |-> t.rows[r][keep[k]]]])

(***************************************************************************)
(* Column standardization (lines 194-220).                                 *)
(***************************************************************************)
\* str(c).strip().lower() on the column labels the loader can return
StripLower(c) ==
    CASE c = "Parcel" -> "parcel"
      [] c = "APN" -> "apn"
      [] c = " apn " -> "apn"
      [] c = "Address" -> "address"
      [] c = "SITE ADDRESS" -> "site address"
      [] c = "City" -> "city"
      [] c = "Town" -> "town"
      [] c = "TOWN" -> "town"
      [] c = "State" -> "state"
      [] c = "ST" -> "st"
      [] c = "Zip" -> "zip"
      [] c = "Postal Code" -> "postal code"
      [] c = "County" -> "county"
      [] c = "County Finder" -> "county finder"
      [] c = "Property Address" -> "property address"
      [] c = "Owner" -> "owner"
      [] c = "APN_key" -> "apn_key"
      [] c = "APN_norm" -> "apn_norm"
      [] OTHER -> c

CanonicalCols == <<"APN", "Property Address", "City", "State", "Zip", "County Finder">>

\* the if/elif chain of lines 198-209; "" when no branch matches
RenameTarget(c) ==
    LET lc == StripLower(c)
    IN  CASE lc \in {"apn", "parcel", "parcel number", "parcel_number"} -> "APN"
          [] lc \in {"address", "property address", "site address"} -> "Property Address"
          [] lc \in {"county", "county finder", "county_name"} -> "County Finder"
          [] lc \in {"city", "town"} -> "City"
          [] lc \in {"state", "st"} -> "State"
          [] lc \in {"zip", "zipcode", "postal code"} -> "Zip"
          [] OTHER -> ""

\* df.rename(columns=rename_map)
RenameCols(t) ==
    DataFrame([i \in 1..Len(t.cols) |->
                  IF RenameTarget(t.cols[i]) # "" THEN RenameTarget(t.cols[i])
                  ELSE t.cols[i]],
              t.rows)

\* the backfill with NaN in place of ""
RECURSIVE BackfillNaN(_, _)
BackfillNaN(t, k) ==
    IF k > Len(CanonicalCols) THEN t
    ELSE BackfillNaN(IF HasCol(t, CanonicalCols[k]) THEN t
                     ELSE SetCol(t, CanonicalCols[k], [r \in 1..Len(t.rows) |-> Null]),
                     k + 1)

\* the backfill loop of lines 213-215, over the canonical names from position k
RECURSIVE Backfill(_, _)
Backfill(t, k) ==
    IF k > Len(CanonicalCols) THEN t
    ELSE Backfill(IF HasCol(t, CanonicalCols[k]) THEN t
                  ELSE SetCol(t, CanonicalCols[k], [r \in 1..Len(t.rows) |-> Empty]),
                  k + 1)

\* line 217; raises when "APN" repeats (normalize_apn gets a Series)
ApnNormRaises(t) == IsDupCol(t, "APN")

WithApnNorm(t) ==
    SetCol(t, "APN_norm",
           [r \in 1..Len(t.rows) |-> normalize_apn(astype_str(Cell(t, r, "APN")))])

\* lines 218-220; raises when one of the four labels repeats (r.get gives a Series)
AddrQueryRaises(t) ==
    \E c \in {"Property Address", "City", "State", "Zip"} : IsDupCol(t, c)

WithAddrQuery(t) ==
    SetCol(t, "addr_query",
           [r \in 1..Len(t.rows) |->
               addr_query(Cell(t, r, "Property Address"), Cell(t, r, "City"),
                          Cell(t, r, "State"), Cell(t, r, "Zip"))])

\* lines 194-220 on a table: [ok, df], df being the table the block holds when
\* it ends or raises
Normalizer(t) ==
    LET t1 == Backfill(RenameCols(t), 1)
    IN  IF ApnNormRaises(t1) THEN [ok |-> FALSE, df |-> t1]
        ELSE IF AddrQueryRaises(WithApnNorm(t1)) THEN [ok |-> FALSE, df |-> WithApnNorm(t1)]
        ELSE [ok |-> TRUE, df |-> WithAddrQuery(WithApnNorm(t1))]

(***************************************************************************)
(* merge_on_apn (lines 109-123).                                           *)
(***************************************************************************)
ApnAliases == <<"APN", "Parcel", "Parcel Number", "parcel", "parcel number">>

\* lines 114-117: the first alias found among the columns is renamed to "APN"
RenameFirstAlias(t) ==
    LET hits == {k \in 1..Len(ApnAliases) : HasCol(t, ApnAliases[k])}
    IN  IF hits = {} THEN t
        ELSE LET c == ApnAliases[CHOOSE k \in hits : \A j \in hits : k <= j]
             IN  DataFrame([i \in 1..Len(t.cols) |-> IF t.cols[i] = c THEN "APN" ELSE t.cols[i]],
                           t.rows)

\* lines 118-119
EnsureApn(t) ==
    IF HasCol(t, "APN") THEN t
    ELSE SetCol(t, "APN", [r \in 1..Len(t.rows) |-> Empty])

\* .astype(str).str.replace(r"\W+", "", regex=True).str.lower() on one cell
apn_key(v) == str_lower(SelectSeq(astype_str(v), IsWord))

\* lines 120-121
WithApnKey(t) ==
    SetCol(t, "APN_key", [r \in 1..Len(t.rows) |-> apn_key(Cell(t, r, "APN"))])

\* positions of the right table's columns other than the join key
RightKeep(R) == SelectSeq([i \in 1..Len(R.cols) |-> i], LAMBDA i : R.cols[i] # "APN_key")

\* right rows whose key equals the key of left row i, in the right table's order
Matches(L, R, i) ==
    SelectSeq([j \in 1..Len(R.rows) |-> j],
              LAMBDA j : Cell(R, j, "APN_key") = Cell(L, i, "APN_key"))

\* an inner join: the rows of left row i, none when nothing matches
InnerRowsFor(L, R, i) ==
    LET keep == RightKeep(R)
        m == Matches(L, R, i)
    IN  [n \in 1..Len(m) |-> L.rows[i] \o [k \in 1..Len(keep) |-> R.rows[m[n]][keep[k]]]]

\* how="left": the rows of left row i, one per match, or one with NaN on the right
LeftRowsFor(L, R, i) ==
    LET keep == RightKeep(R)
        m == Matches(L, R, i)
    IN  IF m = <<>> THEN << L.rows[i] \o [k \in 1..Len(keep) |-> Null] >>
        ELSE [n \in 1..Len(m) |-> L.rows[i] \o [k \in 1..Len(keep) |-> R.rows[m[n]][keep[k]]]]

RECURSIVE JoinRowsFrom(_, _, _)
JoinRowsFrom(L, R, i) ==
    IF i > Len(L.rows) THEN <<>>
    ELSE LeftRowsFor(L, R, i) \o JoinRowsFrom(L, R, i + 1)

\* df.merge(pw, how="left", on="APN_key", suffixes=("", suffix))
LeftMerge(L, R, suffix) ==
    LET keep == RightKeep(R)
        overlap == (Range(L.cols) \cap Range(R.cols)) \ {"APN_key"}
    IN  DataFrame(L.cols \o [k \in 1..Len(keep) |->
                                IF R.cols[keep[k]] \in overlap
                                THEN R.cols[keep[k]] \o suffix
                                ELSE R.cols[keep[k]]],
                  JoinRowsFrom(L, R, 1))

merge_on_apn(base, other, suffix) ==
    IF ~other.isdf \/ NRows(other) = 0 THEN base
    ELSE DropCol(LeftMerge(WithApnKey(base),
                           WithApnKey(EnsureApn(RenameFirstAlias(other))),
                           suffix),
                 "APN_key")

(***************************************************************************)
(* Link synthesis (lines 76-107, 243-249).  A link is a sequence of        *)
(* tokens: the fixed prefix as one token, then the encoded characters.     *)
(***************************************************************************)
\* urllib.parse.quote_plus on one character
quote_plus_char(ch) ==
    CASE ch = " " -> <<"+">>
      [] IsWord(ch) \/ ch \in {".", "-", "~"} -> <<ch>>
      [] ch = "/" -> <<"%", "2", "F">>
      [] ch = "," -> <<"%", "2", "C">>
      [] ch = "#" -> <<"%", "2", "3">>
      [] ch = "&" -> <<"%", "2", "6">>
      [] ch = "\t" -> <<"%", "0", "9">>

RECURSIVE quote_plus(_)
quote_plus(s) ==
    IF s = Empty THEN Empty ELSE quote_plus_char(Head(s)) \o quote_plus(Tail(s))

Sp == <<" ">>

TxtGisParcel == <<" ","G","I","S"," ","p","a","r","c","e","l"," ">>

TxtAppraiser == <<" ","p","r","o","p","e","r","t","y"," ","a","p","p","r","a","i","s","e","r"," ">>

TxtGis == <<" ","G","I","S"," ">>

GisCols == <<"GIS_Google", "GIS_Bing", "Appraiser_Search", "GIS_By_Address">>

OsintCols == <<"OSINT_Google_Addr", "OSINT_Bing_Addr", "Whitepages", "FastPeopleSearch",
               "BeenVerified">>

SocialCols == <<"Facebook_Search", "LinkedIn_Search", "X_Search">>

build_gis_links(t, r) ==
    LET county == py_str(Cell(t, r, "County Finder"))
        state == py_str(Cell(t, r, "State"))
        apn == py_str(Cell(t, r, "APN"))
        addrq == py_str(Cell(t, r, "addr_query"))
        google_q == str_strip(county \o Sp \o state \o TxtGisParcel \o apn)
        appraiser_q == str_strip(county \o Sp \o state \o TxtAppraiser \o apn)
    IN  << <<"https://www.google.com/search?q=">> \o quote_plus(google_q),
           <<"https://www.bing.com/search?q=">> \o quote_plus(google_q),
           <<"https://www.google.com/search?q=">> \o quote_plus(appraiser_q),
           <<"https://www.google.com/search?q=">>
               \o quote_plus(county \o Sp \o state \o TxtGis \o addrq) >>

build_people_osint_links(t, r) ==
    LET addrq == py_str(Cell(t, r, "addr_query"))
    IN  << <<"https://www.google.com/search?q=">> \o quote_plus(addrq),
           <<"https://www.bing.com/search?q=">> \o quote_plus(addrq),
           <<"https://www.whitepages.com/address/">> \o str_replace(addrq, " ", <<"-">>),
           <<"https://www.fastpeoplesearch.com/address/">> \o str_replace(addrq, " ", <<"-">>),
           <<"https://www.beenverified.com/people/search/?n=&citystatezip=">>
               \o quote_plus(addrq) >>

build_social_links(t, r) ==
    LET addrq == py_str(Cell(t, r, "addr_query"))
    IN  << <<"https://www.facebook.com/search/top/?q=">> \o quote_plus(addrq),
           <<"https://www.linkedin.com/search/results/all/?keywords=">> \o quote_plus(addrq),
           <<"https://x.com/search?q=">> \o quote_plus(addrq) \o <<"&src=typed_query">> >>

\* pd.concat([df, new], axis=1): the new columns follow the old ones
ConcatCols(t, names, cells) ==
    DataFrame(t.cols \o names, [r \in 1..Len(t.rows) |-> t.rows[r] \o cells[r]])

\* build_gis_links raises when a label it reads repeats (row.get gives a Series)
GisRaises(t) ==
    \E c \in {"County Finder", "State", "APN", "addr_query"} : IsDupCol(t, c)

WithGis(t) == ConcatCols(t, GisCols, [r \in 1..Len(t.rows) |-> build_gis_links(t, r)])

WithOsint(t) ==
    ConcatCols(t, OsintCols, [r \in 1..Len(t.rows) |-> build_people_osint_links(t, r)])

WithSocial(t) ==
    ConcatCols(t, SocialCols, [r \in 1..Len(t.rows) |-> build_social_links(t, r)])

\* the link synthesis with the social set gated by the osint toggle
LinkSynthesisWrongToggle(t, tg) ==
    IF tg.county /\ GisRaises(t) THEN [ok |-> FALSE, df |-> t]
    ELSE LET t1 == IF tg.county THEN WithGis(t) ELSE t
             t2 == IF tg.osint THEN WithOsint(t1) ELSE t1
             t3 == IF tg.osint THEN WithSocial(t2) ELSE t2
         IN  [ok |-> TRUE, df |-> t3]

\* lines 244-249 on a table: [ok, df]
LinkSynthesis(t, tg) ==
    IF tg.county /\ GisRaises(t) THEN [ok |-> FALSE, df |-> t]
    ELSE LET t1 == IF tg.county THEN WithGis(t) ELSE t
             t2 == IF tg.osint THEN WithOsint(t1) ELSE t1
             t3 == IF tg.social THEN WithSocial(t2) ELSE t2
         IN  [ok |-> TRUE, df |-> t3]

(***************************************************************************)
(* Confidence heuristic (lines 252-257), in hundredths.                    *)
(***************************************************************************)
Min(a, b) == IF a < b THEN a ELSE b

\* (len(x) > 0).astype(int)
Present(v) == IF Len(astype_str(v)) > 0 THEN 1 ELSE 0

\* the sum in units of 1/1200, clipped at 1.0, rounded to 2 decimals; the sum
\* is never half-way between two hundredths (100*len mod 12 is 0, 4 or 8)
confidence_score(apn, address, city, state) ==
    LET n == 100 * Min(Len(astype_str(apn)), 12)
             + 600 * Present(address) + 120 * Present(city) + 120 * Present(state)
    IN  (Min(n, 1200) + 6) \div 12

DigitSeq == <<"0","1","2","3","4","5","6","7","8","9">>

\* the float of h hundredths as Python prints it: 100 -> "1.0", 70 -> "0.7",
\* 25 -> "0.25"; a score cell holds this string
FloatRepr(h) ==
    <<DigitSeq[(h \div 100) + 1], ".", DigitSeq[((h % 100) \div 10) + 1]>>
    \o (IF h % 10 = 0 THEN <<>> ELSE <<DigitSeq[(h % 10) + 1]>>)

WithScore(t) ==
    SetCol(t, "confidence_score",
           [r \in 1..Len(t.rows) |->
               FloatRepr(confidence_score(Cell(t, r, "APN"),
                                          Cell(t, r, "Property Address"),
                                          Cell(t, r, "City"), Cell(t, r, "State")))])

(***************************************************************************)
(* Export (lines 125-133, 259-265).                                        *)
(***************************************************************************)
NoMeta == [set |-> FALSE, rows_in |-> 0, rows_out |-> 0,
           toggles |-> [county |-> FALSE, osint |-> FALSE, social |-> FALSE]]

NoBytes == [set |-> FALSE, enriched |-> None, meta |-> NoMeta, columns |-> <<>>]

\* line 130 raises when a label repeats: main_df[c].notna().any() is a Series
ExcelRaises(t) == HasDupCols(t)

\* the example of a column: its first non-null cell, "" when it has none
Example(t, i) ==
    LET some == {r \in 1..Len(t.rows) : t.rows[r][i] # Null}
    IN  IF some = {} THEN Empty
        ELSE t.rows[CHOOSE r \in some : \A q \in some : r <= q][i]

to_excel_bytes(main_df, m) ==
    [set |-> TRUE, enriched |-> main_df, meta |-> m,
     columns |-> [i \in 1..Len(main_df.cols) |->
                     [column |-> main_df.cols[i], example |-> Example(main_df, i)]]]

(***************************************************************************)
(* The inputs of a run: what the loaders can return.                       *)
(***************************************************************************)
\* a raw row, by field; read_csv yields a string or NaN, never ""
ScenarioRow ==
    [a |-> <<"1","2","-","3","4","5">>,
     b |-> <<"1"," ","E","l","m"," ","S","t">>,
     c |-> <<"S","p","r","i","n","g","f","i","e","l","d">>,
     s |-> <<"I","L">>,
     z |-> <<"6","2","7","0","1">>,
     k |-> <<"S","a","n","g","a","m","o","n">>,
     o |-> <<"w">>]

RowPool ==
    { [a |-> <<"1","2","-","3","4","5",".","6","7","/","8","_","9","A","B">>,
       b |-> <<" ","9"," ","O","a","k"," ">>,
       c |-> Null,
       s |-> <<"n","v">>,
       z |-> <<"A","/","1">>,
       k |-> <<"W","a","s","h","o","e">>,
       o |-> <<"x">>],
      [a |-> Null, b |-> Null, c |-> Null, s |-> Null, z |-> Null, k |-> Null,
       o |-> <<"y">>],
      [a |-> <<"A","B","-","1">>, b |-> Null, c |-> <<"R","e","n","o">>, s |-> Null,
       z |-> Null, k |-> Null, o |-> <<"z">>] }

\* a header: the column labels, each with the field of the raw row it holds
Headers ==
    { << <<"Parcel", "a">>, <<"Address", "b">>, <<"City", "c">>, <<"State", "s">>,
         <<"Zip", "z">> >>,
      << <<"APN", "a">>, <<"Parcel", "o">>, <<"City", "c">> >>,
      << <<"Owner", "o">> >>,
      << <<" apn ", "a">>, <<"SITE ADDRESS", "b">>, <<"TOWN", "c">>, <<"ST", "s">>,
         <<"Postal Code", "z">>, <<"County", "k">> >>,
      << <<"APN", "a">>, <<"APN_key", "o">>, <<"Address", "b">>, <<"County", "k">> >>,
      << <<"APN", "a">>, <<"City", "c">>, <<"Town", "o">> >>,
      << <<"County", "k">>, <<"county_name", "o">>, <<"APN", "a">> >> }

RECURSIVE SeqsUpTo(_, _)
SeqsUpTo(S, n) ==
    IF n = 0 THEN {<<>>}
    ELSE LET shorter == SeqsUpTo(S, n - 1)
         IN  shorter \cup {Append(q, x) : q \in shorter, x \in S}

RawRowSeqs == {<<ScenarioRow>>} \cup SeqsUpTo(RowPool, MaxRows)

MakeTable(h, raw) ==
    DataFrame([i \in 1..Len(h) |-> h[i][1]],
              [r \in 1..Len(raw) |-> [i \in 1..Len(h) |-> raw[r][h[i][2]]]])

\* what pd.read_csv makes of the sheet's bytes: nothing, or a table (possibly
\* with a header and no rows)
ParsedSheets == {None} \cup {MakeTable(h, raw) : h \in Headers, raw \in RawRowSeqs}

\* what read_any_table makes of an upload: None, or a table (possibly empty)
PropwireUploads ==
    { None,
      DataFrame(<<"APN">>, <<>>),
      DataFrame(<<"Parcel Number", "Owner">>,
                << << <<"1","2"," ","3","4","5"," ","6","7","8","_","9","A","B">>,
                      <<"A","n","n">> >>,
                   << <<"1","2",".","3","4","5",".","6","7","8","_","9","a","b">>,
                      <<"B","o","b">> >>,
                   << <<"1","2","3","4","5","6","7","8","9","A","B">>, <<"C","y">> >> >>),
      DataFrame(<<"Owner", "City">>,
                << << <<"D","e","e">>, <<"E","l","k","o">> >>,
                   << <<"E","v","e">>, Null >> >>) }

PradarUploads ==
    { None,
      DataFrame(<<"parcel", "Owner", "APN_key">>,
                << << Null, <<"F","a","y">>, <<"k","1">> >>,
                   << <<"1","2","-","3","4","5">>, <<"G","u","s">>, <<"k","2">> >> >>) }

Toggles == [county : BOOLEAN, osint : BOOLEAN, social : BOOLEAN]

(***************************************************************************)
(* load_gsheet_as_df (lines 41-61): a parsed table is returned only when   *)
(* it is not empty.                                                        *)
(***************************************************************************)
load_gsheet_as_df(parsed) ==
    IF parsed.isdf /\ ~IsEmptyDf(parsed) THEN parsed ELSE None

(***************************************************************************)
(* The run (lines 187-265).                                                *)
(***************************************************************************)
Init ==
    /\ pc = "idle"
    /\ raised = ""
    /\ toggles \in Toggles
    /\ leads_df = None
    /\ df = None
    /\ propwire_df = None
    /\ pradar_df = None
    /\ meta = NoMeta
    /\ xls_bytes = NoBytes

\* the load without the check of lines 189-191
LoadNoStop ==
    /\ pc = "idle"
    /\ \E parsed \in ParsedSheets : leads_df' = load_gsheet_as_df(parsed)
    /\ pc' = "normalize"
    /\ UNCHANGED <<raised, toggles, df, propwire_df, pradar_df, meta, xls_bytes>>

\* lines 188-191: load the sheet, stop with an error when it is None or empty
Load ==
    /\ pc = "idle"
    /\ \E parsed \in ParsedSheets :
          /\ leads_df' = load_gsheet_as_df(parsed)
          /\ pc' = IF ~leads_df'.isdf \/ IsEmptyDf(leads_df') THEN "error" ELSE "normalize"
    /\ UNCHANGED <<raised, toggles, df, propwire_df, pradar_df, meta, xls_bytes>>

\* lines 194-220
Normalize ==
    /\ pc = "normalize"
    /\ LET res == Normalizer(leads_df)
       IN  /\ df' = res.df
           /\ pc' = IF res.ok THEN "read" ELSE "crashed"
           /\ raised' = IF res.ok THEN raised ELSE "normalize"
    /\ UNCHANGED <<toggles, leads_df, propwire_df, pradar_df, meta, xls_bytes>>

\* lines 236-237: both uploads are read
ReadUploads ==
    /\ pc = "read"
    /\ propwire_df' \in PropwireUploads
    /\ pradar_df' \in PradarUploads
    /\ pc' = "merge_pw"
    /\ UNCHANGED <<raised, toggles, leads_df, df, meta, xls_bytes>>

\* lines 238-239
MergePropwire ==
    /\ pc = "merge_pw"
    /\ df' = IF propwire_df.isdf /\ NRows(propwire_df) > 0
             THEN merge_on_apn(df, propwire_df, "_pw") ELSE df
    /\ pc' = "merge_pr"
    /\ UNCHANGED <<raised, toggles, leads_df, propwire_df, pradar_df, meta, xls_bytes>>

\* lines 240-241
MergePradar ==
    /\ pc = "merge_pr"
    /\ df' = IF pradar_df.isdf /\ NRows(pradar_df) > 0
             THEN merge_on_apn(df, pradar_df, "_pr") ELSE df
    /\ pc' = "links"
    /\ UNCHANGED <<raised, toggles, leads_df, propwire_df, pradar_df, meta, xls_bytes>>

\* lines 244-249
Links ==
    /\ pc = "links"
    /\ LET res == LinkSynthesis(df, toggles)
       IN  /\ df' = res.df
           /\ pc' = IF res.ok THEN "score" ELSE "crashed"
           /\ raised' = IF res.ok THEN raised ELSE "links"
    /\ UNCHANGED <<toggles, leads_df, propwire_df, pradar_df, meta, xls_bytes>>

\* lines 252-257
Score ==
    /\ pc = "score"
    /\ df' = WithScore(df)
    /\ pc' = "export"
    /\ UNCHANGED <<raised, toggles, leads_df, propwire_df, pradar_df, meta, xls_bytes>>

\* lines 259-265
Export ==
    /\ pc = "export"
    /\ meta' = [set |-> TRUE, rows_in |-> NRows(leads_df), rows_out |-> NRows(df),
                toggles |-> toggles]
    /\ IF ExcelRaises(df)
       THEN /\ pc' = "crashed"
            /\ raised' = "export"
            /\ xls_bytes' = xls_bytes
       ELSE /\ pc' = "done"
            /\ raised' = raised
            /\ xls_bytes' = to_excel_bytes(df, meta')
    /\ UNCHANGED <<toggles, leads_df, df, propwire_df, pradar_df>>

Next ==
    \/ Load
    \/ Normalize
    \/ ReadUploads
    \/ MergePropwire
    \/ MergePradar
    \/ Links
    \/ Score
    \/ Export

Spec == Init /\ [][Next]_vars

(***************************************************************************)
(* Properties.                                                             *)
(***************************************************************************)
NonEmptyDf(t) == t.isdf /\ NRows(t) > 0

\* the secondary table of the merge step a state is about to take
MergeOther == IF pc = "merge_pw" THEN propwire_df ELSE pradar_df

\* the claims' reading of a cell: a null cell counts as the empty string
NullAsEmpty(v) == IF v = Null THEN Empty ELSE v

\* for each base row, the number of secondary rows whose key equals its key
C1_NMatch(base, other) ==
    LET sec == EnsureApn(RenameFirstAlias(other))
        keys == [j \in 1..NRows(sec) |-> apn_key(Cell(sec, j, "APN"))]
    IN  [i \in 1..NRows(base) |->
            Cardinality({j \in 1..NRows(sec) : keys[j] = apn_key(Cell(base, i, "APN"))})]

\* the number of result rows owed to the first i base rows
RECURSIVE C1_RowsUpTo(_, _)
C1_RowsUpTo(n, i) ==
    IF i = 0 THEN 0
    ELSE C1_RowsUpTo(n, i - 1) + (IF n[i] = 0 THEN 1 ELSE n[i])

C1_MergeRel(base, other, res) ==
    LET kept == DropCol(base, "APN_key")
        nb == Len(kept.cols)
    IN  /\ NRows(res) >= NRows(base)
        /\ IF ~NonEmptyDf(other) THEN res = base
           ELSE LET n == C1_NMatch(base, other)
                IN  /\ NRows(res) = C1_RowsUpTo(n, NRows(base))
                    /\ \A i \in 1..NRows(base) :
                          \A c \in 1..(C1_RowsUpTo(n, i) - C1_RowsUpTo(n, i - 1)) :
                             LET row == res.rows[C1_RowsUpTo(n, i - 1) + c]
                             IN  /\ SubSeq(row, 1, nb) = kept.rows[i]
                                 /\ n[i] = 0 => \A x \in (nb + 1)..Len(row) : row[x] = Null
                    /\ (\A i \in 1..NRows(base) : n[i] = 0) => NRows(res) = NRows(base)

C1_MergeStep ==
    pc \in {"merge_pw", "merge_pr"} => C1_MergeRel(df, MergeOther, df')

\* C1: a merge step never reduces the row count: the result holds, in the
\* order of the base rows, each base row once per secondary row with its key,
\* or once with NaN in the secondary columns when no secondary row has its
\* key; with no key in common the row count is that of the base table.
C1_MergeKeepsBaseRows == [][C1_MergeStep]_vars

\* C1 witness: a propwire merge that fanned one base row out over two
\* secondary rows and kept an unmatched base row with NaN
C1_Witness ==
    /\ pc = "merge_pr"
    /\ NRows(propwire_df) = 3
    /\ NRows(leads_df) = 2
    /\ NRows(df) = 3
    /\ \E r \in 1..NRows(df) : Cell(df, r, "APN_pw") = Null

\* min(1.0, min(len(APN), 12)/12 + 0.5 + 0.1 + 0.1 for the non-empty fields),
\* rounded to 2 decimals, in hundredths
C2_Score(apn, address, city, state) ==
    LET n == 100 * Min(Len(NullAsEmpty(apn)), 12)
             + (IF NullAsEmpty(address) # Empty THEN 600 ELSE 0)
             + (IF NullAsEmpty(city) # Empty THEN 120 ELSE 0)
             + (IF NullAsEmpty(state) # Empty THEN 120 ELSE 0)
    IN  (Min(n, 1200) + 6) \div 12

\* C2 as stated: every row of the scored table carries the score of the
\* formula, a value in [0, 1], whatever its cells.
C2_ScoreFormula ==
    (pc \in {"export", "done"} \/ (pc = "crashed" /\ raised = "export")) =>
        \A r \in 1..NRows(df) :
            /\ C2_Score(Cell(df, r, "APN"), Cell(df, r, "Property Address"),
                        Cell(df, r, "City"), Cell(df, r, "State")) \in 0..100
            /\ Cell(df, r, "confidence_score")
                  = FloatRepr(C2_Score(Cell(df, r, "APN"), Cell(df, r, "Property Address"),
                                       Cell(df, r, "City"), Cell(df, r, "State")))

C3_IsScenarioRun ==
    /\ pc = "done"
    /\ leads_df = DataFrame(<<"Parcel", "Address", "City", "State", "Zip">>,
                            << << <<"1","2","-","3","4","5">>,
                                  <<"1"," ","E","l","m"," ","S","t">>,
                                  <<"S","p","r","i","n","g","f","i","e","l","d">>,
                                  <<"I","L">>,
                                  <<"6","2","7","0","1">> >> >>)
    /\ propwire_df = None
    /\ pradar_df = None
    /\ toggles = [county |-> TRUE, osint |-> TRUE, social |-> TRUE]

C3_ScenarioRow(score) ==
    /\ NRows(df) = 1
    /\ Cell(df, 1, "APN") = <<"1","2","-","3","4","5">>
    /\ Cell(df, 1, "APN_norm") = <<"1","2","3","4","5">>
    /\ Cell(df, 1, "addr_query")
          = <<"1"," ","E","l","m"," ","S","t"," ","S","p","r","i","n","g","f","i","e","l","d",
              " ","I","L"," ","6","2","7","0","1">>
    /\ Cell(df, 1, "confidence_score") = score

\* C3 as stated: the scenario run ends with APN "12-345", APN_norm "12345",
\* addr_query "1 Elm St Springfield IL 62701" and confidence_score 0.7.
C3_ScenarioScore07 == C3_IsScenarioRun => C3_ScenarioRow(<<"0", ".", "7">>)

\* C3 amended: the scenario run ends with the same APN, APN_norm and
\* addr_query, and confidence_score 1.0.
C3_ScenarioScore10 == C3_IsScenarioRun => C3_ScenarioRow(<<"1", ".", "0">>)

\* C3 witness: the scenario run has finished and exported
C3_Witness == C3_IsScenarioRun /\ xls_bytes.set

\* C4 as stated: a null cell counts as "" in every derivation: APN_norm is ""
\* for a null APN, addr_query leaves the null components out, and a row whose
\* APN, Property Address, City and State are empty or null scores 0.0.
C4_NullCoercedToEmpty ==
    /\ pc = "read" =>
          \A r \in 1..NRows(df) :
             /\ Cell(df, r, "APN") = Null => Cell(df, r, "APN_norm") = Empty
             /\ Cell(df, r, "addr_query")
                   = Join(SelectSeq(<<str_strip(NullAsEmpty(Cell(df, r, "Property Address"))),
                                      str_strip(NullAsEmpty(Cell(df, r, "City"))),
                                      str_strip(NullAsEmpty(Cell(df, r, "State"))),
                                      str_strip(NullAsEmpty(Cell(df, r, "Zip")))>>,
                                    NonEmpty),
                          <<" ">>)
    /\ pc = "export" =>
          \A r \in 1..NRows(df) :
             (\A c \in {"APN", "Property Address", "City", "State"} :
                   NullAsEmpty(Cell(df, r, c)) = Empty)
             => Cell(df, r, "confidence_score") = <<"0", ".", "0">>

\* C5: right after the standardization block (also when its derivations
\* raise) the six canonical columns exist on every row, a canonical column no
\* raw label aliases to holds "" in every row, and the raw cells of every row
\* are where they were.
C5_CanonicalColumnsExist ==
    (pc = "read" \/ (pc = "crashed" /\ raised = "normalize")) =>
        /\ \A k \in 1..Len(CanonicalCols) : HasCol(df, CanonicalCols[k])
        /\ NRows(df) = NRows(leads_df)
        /\ \A r \in 1..NRows(df) :
              /\ Len(df.rows[r]) = Len(df.cols)
              /\ \A i \in 1..Len(leads_df.cols) : df.rows[r][i] = leads_df.rows[r][i]
        /\ \A k \in 1..Len(CanonicalCols) :
              (\A i \in 1..Len(leads_df.cols) :
                    RenameTarget(leads_df.cols[i]) # CanonicalCols[k])
              => \A r \in 1..NRows(df) : Cell(df, r, CanonicalCols[k]) = Empty

\* C5 witness: a two-row table with no canonical column, all six backfilled
C5_Witness ==
    /\ pc = "read"
    /\ leads_df.cols = <<"Owner">>
    /\ NRows(df) = 2
    /\ Len(df.cols) = 9

\* C6 as stated: no final output and no result of merge_on_apn has a column
\* named APN_key.
C6_NoApnKeyEver ==
    /\ pc = "done" => ~HasCol(df, "APN_key")
    /\ pc = "merge_pw" => ~HasCol(merge_on_apn(df, propwire_df, "_pw"), "APN_key")
    /\ pc = "merge_pr" => ~HasCol(merge_on_apn(df, pradar_df, "_pr"), "APN_key")

\* C6 amended: the final output has a column named APN_key only when the raw
\* base table had one and no merge ran, and the result of merge_on_apn with a
\* non-empty secondary table has none.
C6_NoApnKeyAfterMerge ==
    /\ (pc = "done" /\ HasCol(df, "APN_key")) =>
          /\ HasCol(leads_df, "APN_key")
          /\ ~NonEmptyDf(propwire_df)
          /\ ~NonEmptyDf(pradar_df)
    /\ (pc = "merge_pw" /\ NonEmptyDf(propwire_df)) =>
          ~HasCol(merge_on_apn(df, propwire_df, "_pw"), "APN_key")
    /\ (pc = "merge_pr" /\ NonEmptyDf(pradar_df)) =>
          ~HasCol(merge_on_apn(df, pradar_df, "_pr"), "APN_key")

\* C6 witness: a finished run whose raw table had an APN_key column and whose
\* propwire merge removed it
C6_Witness ==
    /\ pc = "done"
    /\ HasCol(leads_df, "APN_key")
    /\ NonEmptyDf(propwire_df)
    /\ ~HasCol(df, "APN_key")

C7_Added(tg) ==
    (IF tg.county
     THEN <<"GIS_Google", "GIS_Bing", "Appraiser_Search", "GIS_By_Address">> ELSE <<>>)
    \o (IF tg.osint
        THEN <<"OSINT_Google_Addr", "OSINT_Bing_Addr", "Whitepages", "FastPeopleSearch",
               "BeenVerified">> ELSE <<>>)
    \o (IF tg.social THEN <<"Facebook_Search", "LinkedIn_Search", "X_Search">> ELSE <<>>)

C7_LinksStep ==
    (pc = "links" /\ pc' = "score") =>
        /\ df'.cols = df.cols \o C7_Added(toggles)
        /\ NRows(df') = NRows(df)
        /\ \A r \in 1..NRows(df) :
              /\ Len(df'.rows[r]) = Len(df'.cols)
              /\ SubSeq(df'.rows[r], 1, Len(df.cols)) = df.rows[r]

\* C7: the link step appends the columns of exactly the enabled sets, in the
\* order GIS, OSINT, social (five OSINT columns and nothing else when only
\* osint is on), to every row, and leaves the columns that existed unchanged.
C7_LinkColumnsFollowToggles == [][C7_LinksStep]_vars

\* C7 witness: a run with only osint on, after the link step
C7_Witness ==
    /\ pc = "score"
    /\ toggles = [county |-> FALSE, osint |-> TRUE, social |-> FALSE]
    /\ HasCol(df, "Whitepages")
    /\ ~HasCol(df, "GIS_Google")
    /\ ~HasCol(df, "X_Search")

C8_BaseFailureStops ==
    (pc # "idle" /\ (~leads_df.isdf \/ IsEmptyDf(leads_df))) =>
        /\ pc = "error"
        /\ df = None
        /\ ~meta.set
        /\ ~xls_bytes.set

C8_Step ==
    /\ pc = "error" => FALSE
    /\ (pc = "merge_pw" /\ ~NonEmptyDf(propwire_df)) => (pc' = "merge_pr" /\ df' = df)
    /\ (pc = "merge_pr" /\ ~NonEmptyDf(pradar_df)) => (pc' = "links" /\ df' = df)

C8_NotStopped ==
    (pc \in {"merge_pw", "merge_pr"} /\ ~NonEmptyDf(MergeOther)) => ENABLED Next

\* C8: a base load that gives None or an empty table puts the run in the
\* error state, which it never leaves, with no table, metadata or workbook;
\* an absent or empty secondary table does not stop the run: its merge step
\* leaves the table as it is and hands over to the next step.
C8_LoadFailureStopsSecondarySkipped ==
    /\ [](C8_BaseFailureStops /\ C8_NotStopped)
    /\ [][C8_Step]_vars

\* C8 witness: a run that skipped an empty propwire table and an absent
\* pradar table and exported
C8_Witness ==
    /\ pc = "done"
    /\ propwire_df.isdf
    /\ NRows(propwire_df) = 0
    /\ ~pradar_df.isdf
    /\ xls_bytes.set

\* C9: standardizing a table that the standardization block produced gives
\* the same columns and the same cells, APN_norm and addr_query included.
C9_NormalizerIdempotent ==
    pc = "read" => Normalizer(df) = [ok |-> TRUE, df |-> df]

\* C9 witness: a standardized two-row table with renamed labels and a null APN
C9_Witness ==
    /\ pc = "read"
    /\ HasCol(leads_df, " apn ")
    /\ NRows(df) = 2
    /\ \E r \in 1..NRows(df) : Cell(df, r, "APN") = Null

\* C10 as stated: the standardization block never raises and leaves APN_norm
\* and addr_query on the table, whatever the raw labels.
C10_NormalizationNeverRaises ==
    pc \notin {"idle", "error", "normalize"} =>
        /\ raised # "normalize"
        /\ HasCol(df, "APN_norm")
        /\ HasCol(df, "addr_query")

====
